---- MODULE Spec2Model ----
(***************************************************************************)
(* A model of gcp-service-catalog's site generator (src/main.go):          *)
(* generateHTML normalises the records of services.json, groups them by    *)
(* domain, renders the pages, and generateSitemap inventories the output   *)
(* tree.                                                                   *)
(*                                                                         *)
(* Go strings are modelled as sequences of one-character strings, so that  *)
(* strings.Split, strings.Join, strings.ReplaceAll, strings.ToLower,       *)
(* strings.TrimRight, filepath.Join and the byte-wise order of < are       *)
(* computed character by character.                                        *)
(***************************************************************************)
EXTENDS Integers, Sequences, FiniteSets, TLC

(***************************************************************************)
(* Bounds of the model.                                                    *)
(***************************************************************************)
\* longest catalog fed to the whole pipeline (specification Spec)
MaxRecords == 2
\* longest catalog fed to normalisation, grouping and planning (SpecPlan)
MaxPlanRecords == 3
\* most create/execute failures the environment injects in one run
MaxFailures == 2
\* most files in an output tree handed to the sitemap walk (SpecWalk)
MaxWalkFiles == 3

\* the most services one listing of the Service Usage API returns
MaxListing == 2

\* the longest domain label of the catalogs that try the slug
MaxLabelLen == 3

(***************************************************************************)
(* Characters and the byte-wise order of Go's string comparison.           *)
(***************************************************************************)
Lower == <<"a","b","c","d","e","f","g","h","i","j","k","l","m",
           "n","o","p","q","r","s","t","u","v","w","x","y","z">>

Upper == <<"A","B","C","D","E","F","G","H","I","J","K","L","M",
           "N","O","P","Q","R","S","T","U","V","W","X","Y","Z">>

IndexIn(c, t) == CHOOSE i \in 1..Len(t) : t[i] = c

IsIn(c, t) == \E i \in 1..Len(t) : t[i] = c

\* the byte value of a character (ASCII)
Ord(c) ==
  IF c = " " THEN 32
  ELSE IF c = "-" THEN 45
  ELSE IF c = "." THEN 46
  ELSE IF c = "/" THEN 47
  ELSE IF IsIn(c, Upper) THEN 64 + IndexIn(c, Upper)
  ELSE 96 + IndexIn(c, Lower)

\* s < t for Go strings: byte-wise lexicographic, a proper prefix is smaller
RECURSIVE StrLess(_, _)
StrLess(s, t) ==
  IF t = <<>> THEN FALSE
  ELSE IF s = <<>> THEN TRUE
  ELSE IF Head(s) = Head(t) THEN StrLess(Tail(s), Tail(t))
  ELSE Ord(Head(s)) < Ord(Head(t))

(***************************************************************************)
(* The strings package.                                                    *)
(***************************************************************************)
\* strings.Split(s, sep) for a one-character sep: the stretches of s between
\* the occurrences of sep, so always at least one part
Split(s, sep) ==
  LET at  == SelectSeq([k \in 1..Len(s) |-> k], LAMBDA k : s[k] = sep)
      cut == <<0>> \o at \o <<Len(s) + 1>>
  IN  [j \in 1..(Len(at) + 1) |-> SubSeq(s, cut[j] + 1, cut[j + 1] - 1)]

\* strings.Join(parts, sep)
RECURSIVE Join(_, _)
Join(parts, sep) ==
  IF parts = <<>> THEN <<>>
  ELSE IF Len(parts) = 1 THEN parts[1]
  ELSE parts[1] \o sep \o Join(Tail(parts), sep)

\* strings.ReplaceAll(s, old, new) for one-character old and new
ReplaceAll(s, old, new) ==
  [k \in 1..Len(s) |-> IF s[k] = old THEN new ELSE s[k]]

\* strings.ToLower on ASCII
ToLower(s) ==
  [k \in 1..Len(s) |-> IF IsIn(s[k], Upper) THEN Lower[IndexIn(s[k], Upper)] ELSE s[k]]

\* strings.TrimRight(s, cutset) for a one-character cutset
RECURSIVE TrimRight(_, _)
TrimRight(s, c) ==
  IF s # <<>> /\ s[Len(s)] = c THEN TrimRight(SubSeq(s, 1, Len(s) - 1), c) ELSE s

\* the part of s from index k on
From(s, k) == SubSeq(s, k, Len(s))

\* the last n elements of a sequence (parts[len(parts)-n:])
LastN(parts, n) == SubSeq(parts, Len(parts) - n + 1, Len(parts))

(***************************************************************************)
(* The path/filepath package on a slash-separated platform.                *)
(***************************************************************************)
\* os.PathSeparator
Separator == "/"

\* the elements of a path, left to right, with "" and "." dropped and each
\* ".." cancelling the element before it (filepath.Clean on a relative path)
RECURSIVE CleanParts(_, _)
CleanParts(todo, done) ==
  IF todo = <<>> THEN done
  ELSE LET e == Head(todo)
       IN  IF e = <<>> \/ e = <<".">> THEN CleanParts(Tail(todo), done)
           ELSE IF e = <<".", ".">> /\ done # <<>> /\ done[Len(done)] # <<".", ".">>
             THEN CleanParts(Tail(todo), SubSeq(done, 1, Len(done) - 1))
           ELSE CleanParts(Tail(todo), Append(done, e))

\* filepath.Clean for a relative path
Clean(p) ==
  LET parts == CleanParts(Split(p, Separator), <<>>)
  IN  IF parts = <<>> THEN <<".">> ELSE Join(parts, <<Separator>>)

\* filepath.Join(dir, name) for non-empty dir and name
PathJoin(dir, name) == Clean(dir \o <<Separator>> \o name)

\* the elements of a cleaned path
Elements(p) == Split(p, Separator)

\* filepath.Dir of a cleaned relative path
Dir(p) ==
  LET e == Elements(p)
  IN  IF Len(e) <= 1 THEN <<".">> ELSE Join(SubSeq(e, 1, Len(e) - 1), <<Separator>>)

\* os.FileInfo.Name(): the last element of the path
Base(p) == LET e == Elements(p) IN e[Len(e)]

\* filepath.Ext(name): from the last "." of the last element on, "" without one
Ext(name) ==
  LET seps == {k \in 1..Len(name) : name[k] = Separator}
      dots == {k \in 1..Len(name) : name[k] = "." /\ \A j \in seps : j < k}
  IN  IF dots = {} THEN <<>>
      ELSE From(name, CHOOSE k \in dots : \A j \in dots : j <= k)

\* whether path p lies below directory root
IsBelow(p, root) ==
  /\ Len(p) > Len(root) + 1
  /\ SubSeq(p, 1, Len(root) + 1) = root \o <<Separator>>

\* filepath.Rel(root, p) for a p that the walk of root visits
Rel(root, p) == From(p, Len(root) + 2)

\* filepath.ToSlash
ToSlash(p) == ReplaceAll(p, Separator, "/")

(***************************************************************************)
(* String literals of the program.                                         *)
(***************************************************************************)
Misc == <<"m","i","s","c">>

DotHtml == <<".","h","t","m","l">>

htmlDir == <<"h","t","m","l">>

domainDir == PathJoin(htmlDir, <<"d","o","m","a","i","n">>)

serviceDir == PathJoin(htmlDir, <<"s","e","r","v","i","c","e">>)

IndexHtml == <<"i","n","d","e","x">> \o DotHtml

homeFile == PathJoin(htmlDir, IndexHtml)

servicesFile == PathJoin(htmlDir, <<"s","e","r","v","i","c","e","s">> \o DotHtml)

byDomainFile == PathJoin(htmlDir, <<"b","y","d","o","m","a","i","n">> \o DotHtml)

styleFile == PathJoin(htmlDir, <<"s","t","y","l","e",".","c","s","s">>)

sitemapFile == PathJoin(htmlDir, <<"s","i","t","e","m","a","p",".","x","m","l">>)

robotsFile == PathJoin(htmlDir, <<"r","o","b","o","t","s",".","t","x","t">>)

DomainPrefix == <<"d","o","m","a","i","n","-">>

(***************************************************************************)
(* The pure steps of generateHTML.                                         *)
(***************************************************************************)
\* a bug-seeded variant of DeriveDomain: keeps only the last segment
DeriveDomainLastOnly(name) ==
  LET parts == Split(name, ".")
  IN  IF Len(parts) > 1 THEN Join(LastN(parts, 1), <<".">>) ELSE Misc

\* the Domain computed for a record whose domain is missing
DeriveDomain(name) ==
  LET parts == Split(name, ".")
  IN  IF Len(parts) > 1 THEN Join(LastN(parts, 2), <<".">>) ELSE Misc

\* a bug-seeded variant of FileNameOf: the name is taken as it is
FileNameOfUnchanged(name) == name

\* the file-safe name of a record
FileNameOf(name) == ReplaceAll(name, "/", "-")

\* one iteration of the normalisation loop, on the record svc
NormalizeRecord(svc) ==
  [svc EXCEPT !.Domain   = IF svc.Domain = <<>> THEN DeriveDomain(svc.Name) ELSE @,
              !.FileName = FileNameOf(svc.Name)]

\* a bug-seeded variant of GroupAppend: the group keeps only its newest member
GroupOverwrite(m, svc) ==
  IF svc.Domain \in DOMAIN m
    THEN [m EXCEPT ![svc.Domain] = <<svc>>]
    ELSE m @@ (svc.Domain :> <<svc>>)

\* a bug-seeded variant of GroupAppend: the newest member goes first
GroupPrepend(m, svc) ==
  IF svc.Domain \in DOMAIN m
    THEN [m EXCEPT ![svc.Domain] = <<svc>> \o @]
    ELSE m @@ (svc.Domain :> <<svc>>)

\* domainMap[svc.Domain] = append(domainMap[svc.Domain], svc)
GroupAppend(m, svc) ==
  IF svc.Domain \in DOMAIN m
    THEN [m EXCEPT ![svc.Domain] = Append(@, svc)]
    ELSE m @@ (svc.Domain :> <<svc>>)

\* s inserted into the ascending sequence q
RECURSIVE Insert(_, _)
Insert(q, s) ==
  IF q = <<>> THEN <<s>>
  ELSE IF StrLess(s, Head(q)) THEN <<s>> \o q
  ELSE <<Head(q)>> \o Insert(Tail(q), s)

RECURSIVE SortFrom(_, _)
SortFrom(q, acc) ==
  IF q = <<>> THEN acc ELSE SortFrom(Tail(q), Insert(acc, Head(q)))

\* a bug-seeded variant of SortStrings: the list is left in map order
SortStringsSkipped(q) == q

\* sort.Strings(q): q in ascending byte-wise order
SortStrings(q) == SortFrom(q, <<>>)

\* a bug-seeded variant of urlSafe: letters change case instead of being
\* lower-cased
urlSafeSwapCase(s) ==
  LET t == ReplaceAll(s, " ", "-")
  IN  [k \in 1..Len(t) |->
         IF IsIn(t[k], Upper) THEN Lower[IndexIn(t[k], Upper)]
         ELSE IF IsIn(t[k], Lower) THEN Upper[IndexIn(t[k], Lower)]
         ELSE t[k]]

\* urlSafe: spaces become hyphens, then everything is lower-cased
urlSafe(s) == ToLower(ReplaceAll(s, " ", "-"))

\* the name of a domain's detail page, and where it is written
domainFileName(d) == DomainPrefix \o urlSafe(d) \o DotHtml

domainFilePath(d) == PathJoin(domainDir, domainFileName(d))

\* a bug-seeded variant of serviceFileName: the page is named after the
\* record's domain
serviceFileNameByDomain(svc) == svc.Domain \o DotHtml

\* the name of a record's detail page, and where it is written
serviceFileName(svc) == svc.FileName \o DotHtml

serviceFilePath(svc) == PathJoin(serviceDir, serviceFileName(svc))

\* the page jobs of one run, by target path: home, full listing, domain
\* index, one per domain label, one per record
PageJobPaths(doms, svcs) ==
  <<homeFile, servicesFile, byDomainFile>>
    \o [k \in 1..Len(doms) |-> domainFilePath(doms[k])]
    \o [k \in 1..Len(svcs) |-> serviceFilePath(svcs[k])]

(***************************************************************************)
(* The inputs the model draws from.                                        *)
(***************************************************************************)
\* a record of services.json: name, title and the optional domain
Rec(name, title, domain) == [Name |-> name, Title |-> title, Domain |-> domain]

\* records for the whole pipeline: two names that collide after slash
\* substitution, and a record that brings its own domain
PipelinePool ==
  { Rec(<<"a","/","b">>, "t1", <<>>),
    Rec(<<"a","-","b">>, "t2", <<>>),
    Rec(<<"k",".","c">>, "t3", <<"A"," ","b">>) }

\* records for normalisation, grouping and planning: also a name of three
\* segments, one of two, an empty one, one ending in ".", a label whose slug
\* is that of "A b", and a label with path separators in it
PlanPool ==
  PipelinePool \cup
  { Rec(<<"x",".","g",".","c">>, "t4", <<>>),
    Rec(<<"g",".","c">>, "t5", <<>>),
    Rec(<<>>, "t6", <<>>),
    Rec(<<"b",".">>, "t7", <<>>),
    Rec(<<"m">>, "t8", <<"a","-","b">>),
    Rec(<<"n">>, "t9", <<"z","/",".",".","/","d","o","m","a","i","n","-","a","-","b">>) }

\* every sequence over S of length at most n
SeqsUpTo(S, n) == UNION {[1..k -> S] : k \in 0..n}

\* the contents services.json may have: absent, not a list of records, or a catalog
JsonFiles(pool, n) ==
  {[kind |-> "missing", records |-> <<>>], [kind |-> "malformed", records |-> <<>>]}
    \cup {[kind |-> "ok", records |-> c] : c \in SeqsUpTo(pool, n)}

\* values of the WEBSITE environment variable: unset, plain, with trailing slashes
Websites == {<<>>, <<"w">>, <<"w","/","/">>}

\* a file as the model keeps it: what was rendered into it, whether the
\* rendering ran to its end, and the day of its last modification
File(tmpl, data, complete, mtime) ==
  [tmpl |-> tmpl, data |-> data, complete |-> complete, mtime |-> mtime]

StaleFile == File("stale", <<>>, TRUE, "old")

CurDir == <<".">>

\* output trees a run may start from: none, or the tree an earlier run left,
\* with a page of a record that is gone, a file whose name ends in "html"
\* without being a page, and a directory named like a page
PriorTrees ==
  { [dirs |-> {CurDir}, files |-> <<>>],
    [dirs  |-> {CurDir, htmlDir, domainDir, serviceDir,
                PathJoin(htmlDir, <<"d">> \o DotHtml)},
     files |-> (PathJoin(serviceDir, <<"g","o","n","e">> \o DotHtml) :> StaleFile)
                 @@ (PathJoin(htmlDir, <<"n","o","h","t","m","l">>) :> StaleFile)
                 @@ (styleFile :> StaleFile)
                 @@ (homeFile :> StaleFile)
                 @@ (sitemapFile :> StaleFile)
                 @@ (robotsFile :> StaleFile)] }

(***************************************************************************)
(* The state.                                                              *)
(***************************************************************************)
VARIABLES
  pc,         \* where generateHTML stands
  jsonFile,   \* services.json
  website,    \* the WEBSITE environment variable
  services,   \* var services []Service
  i,          \* the index of the loop under way
  domainMap,  \* domainMap: domain label -> its records
  domains,    \* var domains []string
  dirs,       \* the directories that exist
  files,      \* the files that exist: path -> File
  handles,    \* the paths of the files opened and not yet closed
  log,        \* what log.Printf has written
  faults,     \* how many failures the environment has injected
  result,     \* how generateHTML ended: "running", "ok", "error", "fatal"
  err,        \* the error the function under way returns; Nil for none
  exit,       \* the exit status of the process; NotExited while it runs
  flags,      \* the command line: crawlFlag, generateFlag
  gcp,        \* the crawler's surroundings: projectID, enabled, disabled
  servicesMap \* crawlServices' servicesMap: name -> record

vars == <<pc, jsonFile, website, services, i, domainMap, domains,
          dirs, files, handles, log, faults, result,
          err, exit, flags, gcp, servicesMap>>

crawlVars == <<flags, gcp, servicesMap>>

\* a nil error, and the error fmt.Errorf(msg, what) builds
Nil == <<>>

Errorf(msg, what) == <<msg, what>>

NotExited == "running"

\* the surroundings of a run that does not crawl
NoGcp == [projectID |-> <<>>, enabled |-> <<>>, disabled |-> <<>>]

planVars == <<services, i, domainMap, domains>>

diskVars == <<dirs, files, handles>>

InitWith(jsons, sites, trees) ==
  /\ pc = "read"
  /\ jsonFile \in jsons
  /\ website \in sites
  /\ services = <<>>
  /\ i = 1
  /\ domainMap = <<>>
  /\ domains = <<>>
  /\ \E t \in trees : dirs = t.dirs /\ files = t.files
  /\ handles = {}
  /\ log = <<>>
  /\ faults = 0
  /\ result = "running"
  /\ err = Nil
  /\ exit = NotExited
  /\ flags = [crawl |-> FALSE, generate |-> TRUE]
  /\ gcp = NoGcp
  /\ servicesMap = <<>>

Init == InitWith(JsonFiles(PipelinePool, MaxRecords), Websites, PriorTrees)

(***************************************************************************)
(* generateHTML: reading, normalising, grouping, ordering the domains.     *)
(***************************************************************************)
\* json.Unmarshal into []Service: FileName is not read from the file
Unmarshal(records) ==
  [k \in 1..Len(records) |->
     [Name |-> records[k].Name, Title |-> records[k].Title,
      Domain |-> records[k].Domain, FileName |-> <<>>]]

\* a bug-seeded variant of Readable: the errors of reading and parsing are
\* dropped
ReadableAlways(f) == TRUE

\* os.ReadFile and json.Unmarshal both return a nil error
Readable(f) == f.kind = "ok"

\* os.ReadFile and json.Unmarshal; either failing returns the error
ReadServices ==
  /\ pc = "read"
  /\ IF Readable(jsonFile)
       THEN /\ services' = Unmarshal(jsonFile.records)
            /\ pc' = "normalize"
            /\ result' = result
            /\ err' = err
       ELSE /\ services' = services
            /\ pc' = "return"
            /\ result' = "error"
            /\ err' = IF jsonFile.kind = "missing"
                         THEN Errorf("failed to read services.json", <<>>)
                         ELSE Errorf("failed to unmarshal JSON", <<>>)
  /\ i' = 1
  /\ UNCHANGED <<jsonFile, website, crawlVars, domainMap, domains, diskVars, log, faults, exit>>

\* for i, svc := range services: one iteration
NormalizeStep ==
  /\ pc = "normalize"
  /\ i <= Len(services)
  /\ services' = [services EXCEPT ![i] = NormalizeRecord(services[i])]
  /\ i' = i + 1
  /\ UNCHANGED <<pc, jsonFile, website, crawlVars, domainMap, domains, diskVars, log, faults, result, err, exit>>

NormalizeEnd ==
  /\ pc = "normalize"
  /\ i > Len(services)
  /\ pc' = "group"
  /\ i' = 1
  /\ UNCHANGED <<jsonFile, website, crawlVars, services, domainMap, domains, diskVars, log, faults, result, err, exit>>

\* for _, svc := range services: one iteration
GroupStep ==
  /\ pc = "group"
  /\ i <= Len(services)
  /\ domainMap' = GroupAppend(domainMap, services[i])
  /\ i' = i + 1
  /\ UNCHANGED <<pc, jsonFile, website, crawlVars, services, domains, diskVars, log, faults, result, err, exit>>

GroupEnd ==
  /\ pc = "group"
  /\ i > Len(services)
  /\ pc' = "collect"
  /\ i' = 1
  /\ UNCHANGED <<jsonFile, website, crawlVars, services, domainMap, domains, diskVars, log, faults, result, err, exit>>

\* every sequence that lists each element of S once
RECURSIVE Orders(_)
Orders(S) ==
  IF S = {} THEN {<<>>}
  ELSE UNION {{<<x>> \o q : q \in Orders(S \ {x})} : x \in S}

\* for d := range domainMap: Go iterates a map in an unspecified order
CollectDomains ==
  /\ pc = "collect"
  /\ domains' \in Orders(DOMAIN domainMap)
  /\ pc' = "sort"
  /\ UNCHANGED <<jsonFile, website, crawlVars, services, i, domainMap, diskVars, log, faults, result, err, exit>>

SortDomains ==
  /\ pc = "sort"
  /\ domains' = SortStrings(domains)
  /\ pc' = "mkdir"
  /\ UNCHANGED <<jsonFile, website, crawlVars, services, i, domainMap, diskVars, log, faults, result, err, exit>>

NextPlan ==
  \/ ReadServices
  \/ NormalizeStep
  \/ NormalizeEnd
  \/ GroupStep
  \/ GroupEnd
  \/ CollectDomains
  \/ SortDomains

InitPlan ==
  InitWith(JsonFiles(PlanPool, MaxPlanRecords), {<<"w">>}, {[dirs |-> {CurDir}, files |-> <<>>]})

SpecPlan == InitPlan /\ [][NextPlan]_vars

(***************************************************************************)
(* The file system as the program sees it.                                 *)
(***************************************************************************)
\* fs with the file at path p set to v
Put(fs, p, v) == [q \in DOMAIN fs \cup {p} |-> IF q = p THEN v ELSE fs[q]]

\* p and the directories above it
Ancestors(p) ==
  LET e == Elements(p)
  IN  {Join(SubSeq(e, 1, k), <<Separator>>) : k \in 1..Len(e)}

\* os.MkdirAll(p) can succeed: no file stands where a directory is needed
CanMkdirAll(p) == \A a \in Ancestors(p) : a \notin DOMAIN files

\* os.Create(p) can succeed: the parent directory exists and p is no directory
CanCreate(p) == Dir(p) \in dirs /\ p \notin dirs

\* how creating and then writing the file at p may end
Outcomes(p) ==
  IF ~CanCreate(p) THEN {"create_failed"}
  ELSE IF faults < MaxFailures THEN {"ok", "create_failed", "execute_failed"}
  ELSE {"ok"}

\* the failures the environment has injected, after outcome o at path p
FaultsAfter(p, o) == IF o # "ok" /\ CanCreate(p) THEN faults + 1 ELSE faults

\* a bug-seeded variant of Written: a file this run already wrote is not
\* opened again (the first writer wins)
WrittenOnce(fs, p, tmpl, data, o) ==
  IF o = "create_failed" \/ (p \in DOMAIN fs /\ fs[p].mtime = "new") THEN fs
  ELSE IF o = "execute_failed" THEN Put(fs, p, File(tmpl, <<>>, FALSE, "new"))
  ELSE Put(fs, p, File(tmpl, data, TRUE, "new"))

\* the files after an attempt to create p and render tmpl with data into it:
\* os.Create truncates, a failed execution leaves the file short
Written(fs, p, tmpl, data, o) ==
  IF o = "create_failed" THEN fs
  ELSE IF o = "execute_failed" THEN Put(fs, p, File(tmpl, <<>>, FALSE, "new"))
  ELSE Put(fs, p, File(tmpl, data, TRUE, "new"))

\* how a step that can only fail by the environment's doing may end
Successes == IF faults < MaxFailures THEN {TRUE, FALSE} ELSE {TRUE}

LogEntry(event, kind, key, path) ==
  [event |-> event, kind |-> kind, key |-> key, path |-> path]

(***************************************************************************)
(* generateHTML: the output directories, the stylesheet, the templates.    *)
(***************************************************************************)
OutputDirs == <<htmlDir, domainDir, serviceDir>>

\* the three os.MkdirAll calls, one per step; a failure returns the error
EnsureDir ==
  /\ pc = "mkdir"
  /\ \E ok \in (IF CanMkdirAll(OutputDirs[i]) THEN Successes ELSE {FALSE}) :
       IF ok
         THEN /\ dirs' = dirs \cup Ancestors(OutputDirs[i])
              /\ pc' = IF i = Len(OutputDirs) THEN "copy" ELSE pc
              /\ i' = IF i = Len(OutputDirs) THEN 1 ELSE i + 1
              /\ UNCHANGED <<faults, result, err>>
         ELSE /\ pc' = "return"
              /\ result' = "error"
              /\ err' = Errorf("failed to create directory", OutputDirs[i])
              /\ faults' = IF CanMkdirAll(OutputDirs[i]) THEN faults + 1 ELSE faults
              /\ UNCHANGED <<dirs, i>>
  /\ UNCHANGED <<jsonFile, website, crawlVars, services, domainMap, domains, files, handles, log, exit>>

\* copyFile("assets/style.css", html/style.css); a failure ends the process
\* in log.Fatalf
CopyStyle ==
  /\ pc = "copy"
  /\ \E o \in Outcomes(styleFile) :
       /\ files' = Written(files, styleFile, "style.css", <<>>, o)
       /\ faults' = FaultsAfter(styleFile, o)
       /\ pc' = IF o = "ok" THEN "parse" ELSE "exited"
       /\ result' = IF o = "ok" THEN result ELSE "fatal"
       /\ exit' = IF o = "ok" THEN exit ELSE 1
  /\ UNCHANGED <<jsonFile, website, crawlVars, planVars, dirs, handles, log, err>>

\* template.ParseGlob("templates/*.html"); a failure returns the error
ParseTemplates ==
  /\ pc = "parse"
  /\ \E ok \in Successes :
       /\ pc' = IF ok THEN "home" ELSE "return"
       /\ result' = IF ok THEN result ELSE "error"
       /\ faults' = IF ok THEN faults ELSE faults + 1
       /\ err' = IF ok THEN err ELSE Errorf("failed to parse templates", <<>>)
  /\ UNCHANGED <<jsonFile, website, crawlVars, planVars, diskVars, log, exit>>

(***************************************************************************)
(* generateHTML: the home page, the full listing, the domain index.  Each  *)
(* file is closed by a deferred Close, and a failure returns the error.    *)
(***************************************************************************)
RenderPage(kind, path, tmpl, data, next) ==
  \E o \in Outcomes(path) :
    /\ files' = Written(files, path, tmpl, data, o)
    /\ handles' = IF o = "create_failed" THEN handles ELSE handles \cup {path}
    /\ faults' = FaultsAfter(path, o)
    /\ log' = IF o = "ok" THEN Append(log, LogEntry("generated", kind, <<>>, path)) ELSE log
    /\ pc' = IF o = "ok" THEN next ELSE "return"
    /\ result' = IF o = "ok" THEN result ELSE "error"
    /\ err' = IF o = "ok" THEN err
              ELSE IF o = "create_failed" THEN Errorf("failed to create page", kind)
              ELSE Errorf("failed to execute template", kind)

RenderHome ==
  /\ pc = "home"
  /\ RenderPage("home", homeFile, "index.html", <<Len(services)>>, "services")
  /\ UNCHANGED <<jsonFile, website, crawlVars, planVars, dirs, exit>>

RenderServices ==
  /\ pc = "services"
  /\ RenderPage("services", servicesFile, "services.html", services, "bydomain")
  /\ UNCHANGED <<jsonFile, website, crawlVars, planVars, dirs, exit>>

\* a bug-seeded variant of DomainLink: the label is used as it is
DomainLinkUnslugged(d) ==
  <<"d","o","m","a","i","n","/">> \o DomainPrefix \o d \o DotHtml

\* the Link of a domain's summary entry
DomainLink(d) ==
  <<"d","o","m","a","i","n","/">> \o DomainPrefix \o urlSafe(d) \o DotHtml

\* domainSummaries: one entry per label of doms, in the order of doms
DomainSummaries(doms, m) ==
  [k \in 1..Len(doms) |->
     [Domain |-> doms[k], Count |-> Len(m[doms[k]]), Link |-> DomainLink(doms[k])]]

RenderByDomain ==
  /\ pc = "bydomain"
  /\ RenderPage("bydomain", byDomainFile, "bydomain.html",
                DomainSummaries(domains, domainMap), "domains")
  /\ UNCHANGED <<jsonFile, website, crawlVars, planVars, dirs, exit>>

(***************************************************************************)
(* generateHTML: the per-domain and per-service loops.  A failure is       *)
(* logged and the loop goes on; the file is closed on every path.          *)
(***************************************************************************)
\* a bug-seeded variant of LoopHandles: the file stays open when the
\* template fails
LoopHandlesLeak(h, p, o) == IF o = "execute_failed" THEN h \cup {p} ELSE h

\* the open files after one iteration: f.Close() runs whenever f was opened
LoopHandles(h, p, o) == h

\* a bug-seeded variant of LoopNext: a job that failed is tried again
LoopNextRetry(k, n, o) == IF o = "ok" THEN k + 1 ELSE k

\* a bug-seeded variant of LoopNext: the loop is left at the first failure
LoopNextBreak(k, n, o) == IF o = "ok" THEN k + 1 ELSE n + 1

\* the index after one iteration over n elements that ended in o (continue)
LoopNext(k, n, o) == k + 1

RenderLoopPage(kind, key, path, tmpl, data, n) ==
  \E o \in Outcomes(path) :
    /\ files' = Written(files, path, tmpl, data, o)
    /\ handles' = LoopHandles(handles, path, o)
    /\ faults' = FaultsAfter(path, o)
    /\ log' = Append(log, LogEntry(IF o = "ok" THEN "generated" ELSE o, kind, key, path))
    /\ i' = LoopNext(i, n, o)

RenderDomainPage ==
  /\ pc = "domains"
  /\ i <= Len(domains)
  /\ RenderLoopPage("domain", domains[i], domainFilePath(domains[i]), "domain.html",
                    <<domains[i], domainMap[domains[i]]>>, Len(domains))
  /\ UNCHANGED <<pc, jsonFile, website, crawlVars, services, domainMap, domains, dirs, result, err, exit>>

DomainPagesEnd ==
  /\ pc = "domains"
  /\ i > Len(domains)
  /\ pc' = "svcpages"
  /\ i' = 1
  /\ UNCHANGED <<jsonFile, website, crawlVars, services, domainMap, domains, diskVars, log, faults, result, err, exit>>

RenderServicePage ==
  /\ pc = "svcpages"
  /\ i <= Len(services)
  /\ RenderLoopPage("service", services[i].Name, serviceFilePath(services[i]), "service.html",
                    <<services[i]>>, Len(services))
  /\ UNCHANGED <<pc, jsonFile, website, crawlVars, services, domainMap, domains, dirs, result, err, exit>>

ServicePagesEnd ==
  /\ pc = "svcpages"
  /\ i > Len(services)
  /\ pc' = "sitemap"
  /\ i' = 1
  /\ UNCHANGED <<jsonFile, website, crawlVars, services, domainMap, domains, diskVars, log, faults, result, err, exit>>

(***************************************************************************)
(* generateSitemap.                                                        *)
(***************************************************************************)
\* the files filepath.Walk(root) hands to the callback (directories are
\* handed too, and skipped by it)
WalkedFiles(root) == {p \in DOMAIN files : IsBelow(p, root)}

\* p is visited before q: filepath.Walk reads each directory in the order of
\* its entries' names and descends as it goes, so paths compare element by
\* element, and an element that ends first comes first
RECURSIVE WalkLess(_, _)
WalkLess(p, q) ==
  IF q = <<>> THEN FALSE
  ELSE IF p = <<>> THEN TRUE
  ELSE IF Head(p) = Head(q) THEN WalkLess(Tail(p), Tail(q))
  ELSE IF Head(p) = Separator THEN TRUE
  ELSE IF Head(q) = Separator THEN FALSE
  ELSE Ord(Head(p)) < Ord(Head(q))

RECURSIVE WalkInsert(_, _)
WalkInsert(q, p) ==
  IF q = <<>> THEN <<p>>
  ELSE IF WalkLess(p, Head(q)) THEN <<p>> \o q
  ELSE <<Head(q)>> \o WalkInsert(Tail(q), p)

\* the files of S in the order filepath.Walk visits them
RECURSIVE WalkSeq(_)
WalkSeq(S) ==
  IF S = {} THEN <<>>
  ELSE LET p == CHOOSE x \in S : TRUE IN WalkInsert(WalkSeq(S \ {p}), p)

\* strings.TrimRight(website, "/")
BaseURL(w) == TrimRight(w, "/")

\* a bug-seeded variant of IsPage: any name ending in "html" counts
IsPageBySuffix(p) ==
  Len(p) >= 4 /\ From(p, Len(p) - 3) = <<"h","t","m","l">>

\* filepath.Ext(info.Name()) == ".html"
IsPage(p) == Ext(Base(p)) = DotHtml

\* a bug-seeded variant of SitemapEntry: every index.html becomes its
\* directory's URL
SitemapEntryAnyIndex(base, root, p, fs) ==
  LET relPath == Rel(root, p)
      urlPath == ToSlash(relPath)
  IN  [Loc     |-> IF Base(p) = IndexHtml
                     THEN base \o <<"/">> \o SubSeq(urlPath, 1, Len(urlPath) - Len(IndexHtml))
                     ELSE base \o <<"/">> \o urlPath,
       LastMod |-> fs[p].mtime]

\* the SitemapURL the callback appends for the file at p
SitemapEntry(base, root, p, fs) ==
  LET relPath == Rel(root, p)
      urlPath == IF ToSlash(relPath) = IndexHtml THEN <<>> ELSE ToSlash(relPath)
      loc     == base \o <<"/">> \o urlPath
  IN  [Loc     |-> IF relPath = IndexHtml THEN base \o <<"/">> ELSE loc,
       LastMod |-> fs[p].mtime]

\* sitemap.URLs after the walk visited the files in the given order
WalkedURLs(base, root, order, fs) ==
  LET pages == SelectSeq(order, IsPage)
  IN  [k \in 1..Len(pages) |-> SitemapEntry(base, root, pages[k], fs)]

RECURSIVE InsertURL(_, _)
InsertURL(q, u) ==
  IF q = <<>> THEN <<u>>
  ELSE IF StrLess(u.Loc, Head(q).Loc) THEN <<u>> \o q
  ELSE <<Head(q)>> \o InsertURL(Tail(q), u)

RECURSIVE SortURLsFrom(_, _)
SortURLsFrom(q, acc) ==
  IF q = <<>> THEN acc ELSE SortURLsFrom(Tail(q), InsertURL(acc, Head(q)))

\* a bug-seeded variant of SortURLs: the entries stay in walk order
SortURLsSkipped(q) == q

\* sort.Slice(sitemap.URLs, by Loc)
SortURLs(q) == SortURLsFrom(q, <<>>)

\* a bug-seeded variant of WebsiteUnset: an empty WEBSITE is let through
WebsiteUnsetIgnored(w) == FALSE

\* if website == "": os.Getenv gives "" for a variable unset or empty
WebsiteUnset(w) == w = <<>>

\* the errors generateHTML wraps when generateSitemap or generateRobotsTxt fails
SitemapError(cause) == Errorf("failed to generate sitemap", cause)

RobotsError(cause) == Errorf("failed to generate robots.txt", cause)

\* generateSitemap(htmlDir) when the walk visits the files in the given
\* order: WEBSITE unset, a failing walk, a failing create or write each
\* return an error; otherwise sitemap.xml holds the sorted entries
GenerateSitemapIn(order) ==
  IF WebsiteUnset(website)
    THEN /\ pc' = "return"
         /\ result' = "error"
         /\ err' = SitemapError("environment variable 'WEBSITE' is not set")
         /\ UNCHANGED <<files, faults, log>>
    ELSE \E walked \in (IF htmlDir \in dirs THEN Successes ELSE {FALSE}) :
           IF ~walked
             THEN /\ pc' = "return"
                  /\ result' = "error"
                  /\ faults' = IF htmlDir \in dirs THEN faults + 1 ELSE faults
                  /\ err' = SitemapError("error walking the path")
                  /\ UNCHANGED <<files, log>>
             ELSE \E o \in Outcomes(sitemapFile) :
                    /\ files' = Written(files, sitemapFile, "sitemap.xml",
                                        SortURLs(WalkedURLs(BaseURL(website), htmlDir, order, files)), o)
                    /\ faults' = FaultsAfter(sitemapFile, o)
                    /\ log' = IF o = "ok"
                                THEN Append(log, LogEntry("generated", "sitemap", <<>>, sitemapFile))
                                ELSE log
                    /\ pc' = IF o = "ok" THEN "robots" ELSE "return"
                    /\ result' = IF o = "ok" THEN result ELSE "error"
                    /\ err' = IF o = "ok" THEN err
                              ELSE IF o = "create_failed"
                                THEN SitemapError("failed to create sitemap.xml")
                              ELSE SitemapError("failed to write sitemap.xml")

GenerateSitemap ==
  /\ pc = "sitemap"
  /\ GenerateSitemapIn(WalkSeq(WalkedFiles(htmlDir)))
  /\ UNCHANGED <<jsonFile, website, crawlVars, planVars, dirs, handles, exit>>

\* generateRobotsTxt(htmlDir): WEBSITE unset, a template that does not
\* parse, a failing create or execution each return an error
GenerateRobotsTxt ==
  /\ pc = "robots"
  /\ IF WebsiteUnset(website)
       THEN /\ result' = "error"
            /\ err' = RobotsError("environment variable 'WEBSITE' is not set")
            /\ UNCHANGED <<files, faults, log>>
       ELSE \E parsed \in Successes :
              IF ~parsed
                THEN /\ result' = "error"
                     /\ faults' = faults + 1
                     /\ err' = RobotsError("failed to parse robots.txt template")
                     /\ UNCHANGED <<files, log>>
                ELSE \E o \in Outcomes(robotsFile) :
                       /\ files' = Written(files, robotsFile, "robots.txt",
                                           <<BaseURL(website) \o <<"/">> \o Base(sitemapFile),
                                             <<"/","s","n","i","p","p","e","t","s","/">> >>, o)
                       /\ faults' = FaultsAfter(robotsFile, o)
                       /\ log' = IF o = "ok"
                                   THEN Append(log, LogEntry("generated", "robots", <<>>, robotsFile))
                                   ELSE log
                       /\ result' = IF o = "ok" THEN "ok" ELSE "error"
                       /\ err' = IF o = "ok" THEN err
                                 ELSE IF o = "create_failed"
                                   THEN RobotsError("failed to create robots.txt")
                                 ELSE RobotsError("failed to execute robots.txt template")
  /\ pc' = "return"
  /\ UNCHANGED <<jsonFile, website, crawlVars, planVars, dirs, handles, exit>>

\* generateHTML returns: the deferred Close calls run; main ends the process
\* in log.Fatalf when it gets an error, and by returning otherwise
Return ==
  /\ pc = "return"
  /\ handles' = {}
  /\ pc' = "done"
  /\ exit' = IF err = Nil THEN 0 ELSE 1
  /\ UNCHANGED <<jsonFile, website, crawlVars, planVars, dirs, files, log, faults, result, err>>

Next ==
  \/ ReadServices
  \/ NormalizeStep
  \/ NormalizeEnd
  \/ GroupStep
  \/ GroupEnd
  \/ CollectDomains
  \/ SortDomains
  \/ EnsureDir
  \/ CopyStyle
  \/ ParseTemplates
  \/ RenderHome
  \/ RenderServices
  \/ RenderByDomain
  \/ RenderDomainPage
  \/ DomainPagesEnd
  \/ RenderServicePage
  \/ ServicePagesEnd
  \/ GenerateSitemap
  \/ GenerateRobotsTxt
  \/ Return

Spec == Init /\ [][Next]_vars

(***************************************************************************)
(* generateSitemap and generateRobotsTxt on their own, over output trees   *)
(* of any shape and with the walk free to visit the files in any order.    *)
(***************************************************************************)
WalkPool ==
  { homeFile, byDomainFile, styleFile,
    PathJoin(domainDir, IndexHtml),
    PathJoin(serviceDir, <<"a","-","b">> \o DotHtml),
    PathJoin(htmlDir, <<"n","o","h","t","m","l">>) }

WalkTrees ==
  {[dirs  |-> {CurDir, htmlDir, domainDir, serviceDir, PathJoin(htmlDir, <<"d">> \o DotHtml)},
    files |-> [p \in S |-> StaleFile]] :
     S \in {T \in SUBSET WalkPool : Cardinality(T) <= MaxWalkFiles}}

InitWalk ==
  /\ pc = "sitemap"
  /\ jsonFile = [kind |-> "ok", records |-> <<>>]
  /\ website \in Websites
  /\ services = <<>>
  /\ i = 1
  /\ domainMap = <<>>
  /\ domains = <<>>
  /\ \E t \in WalkTrees : dirs = t.dirs /\ files = t.files
  /\ handles = {}
  /\ log = <<>>
  /\ faults = 0
  /\ result = "running"
  /\ err = Nil
  /\ exit = NotExited
  /\ flags = [crawl |-> FALSE, generate |-> TRUE]
  /\ gcp = NoGcp
  /\ servicesMap = <<>>

WalkAnyOrder ==
  /\ pc = "sitemap"
  /\ \E order \in Orders(WalkedFiles(htmlDir)) : GenerateSitemapIn(order)
  /\ UNCHANGED <<jsonFile, website, crawlVars, planVars, dirs, handles, exit>>

NextWalk ==
  \/ WalkAnyOrder
  \/ GenerateRobotsTxt
  \/ Return

SpecWalk == InitWalk /\ [][NextWalk]_vars

(***************************************************************************)
(* generateHTML on catalogs of one record whose domain label is any short  *)
(* string of letters, spaces and hyphens.                                  *)
(***************************************************************************)
LabelChars == {"A", "b", " ", "-"}

Labels == SeqsUpTo(LabelChars, MaxLabelLen)

InitLabels ==
  InitWith({[kind |-> "ok", records |-> <<Rec(<<"n">>, "t", d)>>] : d \in Labels},
           {<<"w">>}, {[dirs |-> {CurDir}, files |-> <<>>]})

SpecLabels == InitLabels /\ [][Next]_vars

(***************************************************************************)
(* main and crawlServices.                                                 *)
(***************************************************************************)
\* what main and crawlServices leave alone
htmlVars == <<website, domainMap, domains, dirs, files, handles, result>>

\* a bug-seeded variant of BothSet: the two flags together are let through
BothSetIgnored(f) == FALSE

\* *crawlFlag && *generateFlag
BothSet(f) == f.crawl /\ f.generate

\* !*crawlFlag && !*generateFlag
NoneSet(f) == ~f.crawl /\ ~f.generate

\* main: both flags end the process in log.Fatal, neither in flag.Usage and
\* os.Exit(1); otherwise crawlServices or generateHTML is called
Main ==
  /\ pc = "main"
  /\ IF BothSet(flags)
       THEN /\ log' = Append(log, LogEntry("fatal", "main", <<>>, <<>>))
            /\ exit' = 1
            /\ pc' = "exited"
       ELSE IF NoneSet(flags)
         THEN /\ exit' = 1
              /\ pc' = "exited"
              /\ log' = log
       ELSE /\ pc' = IF flags.crawl THEN "crawl" ELSE "read"
            /\ UNCHANGED <<exit, log>>
  /\ UNCHANGED <<jsonFile, crawlVars, htmlVars, services, i, faults, err>>

\* strings.HasSuffix
HasSuffix(s, suffix) ==
  Len(s) >= Len(suffix) /\ SubSeq(s, Len(s) - Len(suffix) + 1, Len(s)) = suffix

CloudGoog == <<".","c","l","o","u","d",".","g","o","o","g">>

\* how many trailing parts of the name make the domain: overrides, default
DomainParts(name) == IF HasSuffix(name, CloudGoog) THEN 3 ELSE 2

\* svc["domain"]: set when the name has enough parts, absent otherwise
CrawlDomain(name) ==
  LET parts == Split(name, ".")
      count == DomainParts(name)
  IN  IF Len(parts) >= count THEN Join(LastN(parts, count), <<".">>) ELSE <<>>

\* the record kept for a service the API returned
CrawlRecord(resp) ==
  [Name |-> resp.Name, Title |-> resp.Title,
   Domain |-> CrawlDomain(resp.Name), Documentation |-> resp.Summary]

\* a bug-seeded variant of Seen: no name counts as seen
SeenNever(m, name) == FALSE

\* _, exists := servicesMap[name]
Seen(m, name) == name \in DOMAIN m

\* servicesMap[name] = svc
Store(m, svc) ==
  [n \in DOMAIN m \cup {svc.Name} |-> IF n = svc.Name THEN svc ELSE m[n]]

\* serviceusage.NewClient and GCP_PROJECT_ID; either failing returns an error
CrawlStart ==
  /\ pc = "crawl"
  /\ \E ok \in Successes :
       IF ~ok
         THEN /\ err' = Errorf("failed to create service usage client", <<>>)
              /\ faults' = faults + 1
              /\ pc' = "crawl_return"
              /\ UNCHANGED <<servicesMap, i>>
         ELSE IF gcp.projectID = <<>>
           THEN /\ err' = Errorf("GCP_PROJECT_ID environment variable is required", <<>>)
                /\ pc' = "crawl_return"
                /\ UNCHANGED <<servicesMap, i, faults>>
         ELSE /\ servicesMap' = <<>>
              /\ i' = 1
              /\ pc' = "enabled"
              /\ UNCHANGED <<err, faults>>
  /\ UNCHANGED <<jsonFile, flags, gcp, htmlVars, services, log, exit>>

\* one turn of callAPI's loop over the listing: the iterator is done or
\* fails (break), or it gives a service, kept unless its name was seen
CallAPI(listing, next) ==
  /\ IF i > Len(listing)
       THEN /\ pc' = next
            /\ i' = 1
            /\ UNCHANGED <<servicesMap, faults>>
       ELSE \E ok \in Successes :
              IF ~ok
                THEN /\ pc' = next
                     /\ i' = 1
                     /\ faults' = faults + 1
                     /\ servicesMap' = servicesMap
                ELSE /\ servicesMap' = IF Seen(servicesMap, listing[i].Name)
                                         THEN servicesMap
                                         ELSE Store(servicesMap, CrawlRecord(listing[i]))
                     /\ i' = i + 1
                     /\ UNCHANGED <<pc, faults>>
  /\ UNCHANGED <<jsonFile, flags, gcp, htmlVars, services, log, err, exit>>

\* callAPI("state:ENABLED")
ListEnabled ==
  /\ pc = "enabled"
  /\ CallAPI(gcp.enabled, "disabled")

\* callAPI("state:DISABLED")
ListDisabled ==
  /\ pc = "disabled"
  /\ CallAPI(gcp.disabled, "collectsvc")

\* for _, svc := range servicesMap: the map's order is unspecified
CollectServices ==
  /\ pc = "collectsvc"
  /\ \E o \in Orders(DOMAIN servicesMap) :
       services' = [k \in 1..Len(o) |-> servicesMap[o[k]]]
  /\ pc' = "sortsvc"
  /\ UNCHANGED <<jsonFile, crawlVars, htmlVars, i, log, faults, err, exit>>

RECURSIVE InsertByName(_, _)
InsertByName(q, svc) ==
  IF q = <<>> THEN <<svc>>
  ELSE IF StrLess(svc.Name, Head(q).Name) THEN <<svc>> \o q
  ELSE <<Head(q)>> \o InsertByName(Tail(q), svc)

RECURSIVE SortByNameFrom(_, _)
SortByNameFrom(q, acc) ==
  IF q = <<>> THEN acc ELSE SortByNameFrom(Tail(q), InsertByName(acc, Head(q)))

\* a bug-seeded variant of SortByName: the records stay in map order
SortByNameSkipped(q) == q

\* sort.Slice(services, by "name")
SortByName(q) == SortByNameFrom(q, <<>>)

SortServices ==
  /\ pc = "sortsvc"
  /\ services' = SortByName(services)
  /\ pc' = "write"
  /\ UNCHANGED <<jsonFile, crawlVars, htmlVars, i, log, faults, err, exit>>

\* json.MarshalIndent and os.WriteFile("services.json"); a failing write
\* returns an error and leaves the file as it was or cut short
WriteServices ==
  /\ pc = "write"
  /\ \E ok \in Successes :
       IF ok
         THEN /\ jsonFile' = [kind |-> "ok", records |-> services]
              /\ UNCHANGED <<err, faults>>
         ELSE /\ jsonFile' \in {jsonFile, [kind |-> "malformed", records |-> <<>>]}
              /\ err' = Errorf("failed to write services.json", <<>>)
              /\ faults' = faults + 1
  /\ pc' = "crawl_return"
  /\ UNCHANGED <<crawlVars, htmlVars, services, i, log, exit>>

\* crawlServices returns; main ends the process in log.Fatalf when it gets
\* an error, and by returning otherwise
CrawlReturn ==
  /\ pc = "crawl_return"
  /\ pc' = "done"
  /\ exit' = IF err = Nil THEN 0 ELSE 1
  /\ UNCHANGED <<jsonFile, crawlVars, htmlVars, services, i, log, faults, err>>

\* what the API may return for a service: name, title, documentation summary
Resp(name, title, summary) == [Name |-> name, Title |-> title, Summary |-> summary]

ApiPool ==
  { Resp(<<"b">>, "t1", <<>>),
    Resp(<<"a",".","b">>, "t2", <<"d">>),
    Resp(<<"b">>, "t3", <<"d">>),
    Resp(<<"a",".","x">> \o CloudGoog, "t4", <<>>) }

\* the surroundings of a crawl: GCP_PROJECT_ID unset or set, and what the
\* two listings return
GcpEnvs ==
  {[projectID |-> p, enabled |-> e, disabled |-> d] :
     p \in {<<>>, <<"p">>},
     e \in SeqsUpTo(ApiPool, MaxListing),
     d \in SeqsUpTo(ApiPool, MaxListing)}

\* the process starts in main with the flags given; a run that generates
\* reads services.json, a run that crawls reads the API
InitMain ==
  /\ pc = "main"
  /\ flags \in [crawl : BOOLEAN, generate : BOOLEAN]
  /\ IF flags.generate /\ ~flags.crawl
       THEN /\ gcp = NoGcp
            /\ jsonFile \in JsonFiles(PipelinePool, 1)
       ELSE /\ gcp \in GcpEnvs
            /\ jsonFile = [kind |-> "missing", records |-> <<>>]
  /\ website = <<"w">>
  /\ services = <<>>
  /\ i = 1
  /\ domainMap = <<>>
  /\ domains = <<>>
  /\ dirs = {CurDir}
  /\ files = <<>>
  /\ handles = {}
  /\ log = <<>>
  /\ faults = 0
  /\ result = "running"
  /\ err = Nil
  /\ exit = NotExited
  /\ servicesMap = <<>>

NextMain ==
  \/ Main
  \/ CrawlStart
  \/ ListEnabled
  \/ ListDisabled
  \/ CollectServices
  \/ SortServices
  \/ WriteServices
  \/ CrawlReturn
  \/ Next

SpecMain == InitMain /\ [][NextMain]_vars

(***************************************************************************)
(* The same loops run to their end on a whole catalog.                     *)
(***************************************************************************)
NormalizeAll(svcs) == [k \in 1..Len(svcs) |-> NormalizeRecord(svcs[k])]

RECURSIVE GroupAll(_, _)
GroupAll(svcs, m) ==
  IF svcs = <<>> THEN m ELSE GroupAll(Tail(svcs), GroupAppend(m, Head(svcs)))

\* whether `domains` ends as q in whichever order the map is iterated
DomainListIs(records, q) ==
  \A o \in Orders(DOMAIN GroupAll(NormalizeAll(Unmarshal(records)), <<>>)) :
     SortStrings(o) = q

(***************************************************************************)
(* Properties of normalisation, grouping and planning (SpecPlan).          *)
(***************************************************************************)
\* the loops before the output is touched have run
Planned ==
  /\ jsonFile.kind = "ok"
  /\ pc \notin {"read", "normalize", "group", "collect", "sort"}

\* record k has been through the normalisation loop
NormalizedAt(k) ==
  /\ pc # "read"
  /\ k \in 1..Len(services)
  /\ pc = "normalize" => k < i

\* how many records the grouping loop has consumed
Grouped ==
  IF pc \in {"read", "normalize"} THEN 0
  ELSE IF pc = "group" THEN i - 1
  ELSE Len(services)

\* the text after the last-but-one "." of name; all of name when it has one
\* "."; "misc" when it has none
LastTwoSegments(name) ==
  LET dots == {k \in 1..Len(name) : name[k] = "."}
  IN  IF dots = {} THEN Misc
      ELSE IF Cardinality(dots) = 1 THEN name
      ELSE LET last == CHOOSE k \in dots : \A j \in dots : j <= k
               prev == CHOOSE k \in dots \ {last} : \A j \in dots \ {last} : j <= k
           IN  From(name, prev + 1)

\* C1: every record that came without a domain gets, as its Domain, the last
\* two dot-separated segments of its name joined by ".", or "misc" when the
\* name has fewer than two segments; no record is left without a Domain and
\* normalisation never ends the run.
C1_DomainDerived ==
  /\ \A k \in 1..Len(services) :
       NormalizedAt(k) =>
         /\ services[k].Domain # <<>>
         /\ jsonFile.records[k].Domain = <<>> =>
              services[k].Domain = LastTwoSegments(services[k].Name)
  /\ pc \in {"normalize", "group"} => result = "running"

C1_Witness ==
  /\ pc = "group"
  /\ \E k \in 1..Len(services) :
       /\ jsonFile.records[k].Domain = <<>>
       /\ services[k].Name = <<"x",".","g",".","c">>
       /\ services[k].Domain = <<"g",".","c">>
  /\ \E k \in 1..Len(services) :
       /\ services[k].Name = <<>>
       /\ services[k].Domain = Misc

\* how often r occurs in the sequence q
Occurrences(q, r) == Cardinality({k \in 1..Len(q) : q[k] = r})

RECURSIVE SumOver(_, _)
SumOver(f, D) ==
  IF D = {} THEN 0
  ELSE LET d == CHOOSE x \in D : TRUE IN f[d] + SumOver(f, D \ {d})

\* C2: the groups partition the records: each member of a group carries the
\* group's label as its Domain, each record occurs in the groups as often as
\* in the input, and the groups have as many members as there are records.
C2_GroupsPartition ==
  LET done    == SubSeq(services, 1, Grouped)
      members == UNION {{domainMap[d][j] : j \in 1..Len(domainMap[d])} : d \in DOMAIN domainMap}
      inGroup == [d \in DOMAIN domainMap |-> Len(domainMap[d])]
  IN  /\ \A d \in DOMAIN domainMap :
           /\ domainMap[d] # <<>>
           /\ \A j \in 1..Len(domainMap[d]) : domainMap[d][j].Domain = d
      /\ \A r \in members \cup {done[k] : k \in 1..Len(done)} :
           Occurrences(done, r) =
             SumOver([d \in DOMAIN domainMap |-> Occurrences(domainMap[d], r)], DOMAIN domainMap)
      /\ SumOver(inGroup, DOMAIN domainMap) = Len(done)

C2_Witness ==
  /\ pc = "collect"
  /\ Len(services) = 3
  /\ services[1] = services[3]
  /\ Cardinality(DOMAIN domainMap) = 2

Distinct(q) == \A a, b \in 1..Len(q) : a < b => q[a] # q[b]

\* C3 as stated: no two page jobs of a run target the same path, whatever the
\* catalog.
C3_NoTwoJobsSamePath ==
  Planned => Distinct(PageJobPaths(domains, services))

\* the catalogs for which the page jobs cannot collide
C3_Collisionfree ==
  /\ Distinct([k \in 1..Len(services) |-> services[k].FileName])
  /\ Distinct([k \in 1..Len(domains) |-> ToLower(ReplaceAll(domains[k], " ", "-"))])
  /\ \A k \in 1..Len(domains) : \A j \in 1..Len(domains[k]) : domains[k][j] # "/"

\* C3, amended: no two page jobs of a run target the same path when the
\* records' FileNames are pairwise distinct, the domain labels' slugs are
\* pairwise distinct and no domain label contains a path separator.
C3_DistinctPathsWhenCollisionfree ==
  (Planned /\ C3_Collisionfree) => Distinct(PageJobPaths(domains, services))

C3_Witness ==
  /\ Planned
  /\ C3_Collisionfree
  /\ Len(services) = 3
  /\ Len(domains) >= 2

Permuted(q, p) == [k \in 1..Len(q) |-> q[p[k]]]

\* C10: the domain-label list is the strictly ascending (byte-wise, hence
\* duplicate-free) list of the records' distinct Domain values, and every
\* permutation of the input records yields this same list.
C10_DomainListSortedAndOrderFree ==
  Planned =>
    /\ \A k \in 1..(Len(domains) - 1) : StrLess(domains[k], domains[k + 1])
    /\ {domains[k] : k \in 1..Len(domains)} = {services[k].Domain : k \in 1..Len(services)}
    /\ \A p \in Orders(1..Len(jsonFile.records)) :
         DomainListIs(Permuted(jsonFile.records, p), domains)

C10_Witness ==
  /\ Planned
  /\ Len(domains) = 3
  /\ StrLess(services[2].Domain, services[1].Domain)
  /\ services[1].Domain # domains[1]

\* the slug of a label: each space a hyphen, each upper-case letter its
\* lower-case one, every other character as it is
SlugOf(d) ==
  [k \in 1..Len(d) |->
     IF d[k] = " " THEN "-"
     ELSE IF IsIn(d[k], Upper) THEN Lower[IndexIn(d[k], Upper)]
     ELSE d[k]]

\* domain/domain-<slug>.html
LinkOf(d) ==
  <<"d","o","m","a","i","n","/","d","o","m","a","i","n","-">> \o SlugOf(d) \o DotHtml

\* where the detail job of label d writes, relative to the output root
DomainJobTarget(d) == ToSlash(Rel(htmlDir, domainFilePath(d)))

\* the summary entries are one per distinct label in the sorted order, each
\* with its group's size as Count and domain/domain-<slug>.html as Link
SummariesPerLabel(payload) ==
  /\ Len(payload) = Cardinality({services[k].Domain : k \in 1..Len(services)})
  /\ \A k \in 1..Len(payload) :
       /\ payload[k].Domain = domains[k]
       /\ payload[k].Count =
            Cardinality({j \in 1..Len(services) : services[j].Domain = domains[k]})
       /\ payload[k].Link = LinkOf(domains[k])
  /\ \A k \in 1..(Len(payload) - 1) : StrLess(payload[k].Domain, payload[k + 1].Domain)

\* C13 as stated: the domain-index payload has one entry per distinct label
\* in sorted order, with the group's size and the link
\* domain/domain-<slug>.html, and that link is the relative path the
\* label's detail job writes, whatever the label.
C13_SummaryLinksAreJobPaths ==
  Planned =>
    LET payload == DomainSummaries(domains, domainMap)
    IN  /\ SummariesPerLabel(payload)
        /\ \A k \in 1..Len(payload) : payload[k].Link = DomainJobTarget(domains[k])

\* the file name of label d's page has no empty, "." or ".." path element
PlainFileName(d) ==
  LET e == Split(DomainPrefix \o SlugOf(d) \o DotHtml, "/")
  IN  \A k \in 1..Len(e) : e[k] \notin {<<>>, <<".">>, <<".", ".">>}

\* C13, amended: the payload has one entry per distinct label in sorted
\* order with the group's size and the link domain/domain-<slug>.html; the
\* link is the relative path the label's detail job writes for every label
\* whose domain-<slug>.html has no empty, "." or ".." path element.
C13_SummaryLinksAreJobPathsForPlainNames ==
  Planned =>
    LET payload == DomainSummaries(domains, domainMap)
    IN  /\ SummariesPerLabel(payload)
        /\ \A k \in 1..Len(payload) :
             PlainFileName(domains[k]) => payload[k].Link = DomainJobTarget(domains[k])

C13_Witness ==
  /\ Planned
  /\ Len(domains) = 2
  /\ \E k \in 1..Len(domains) : domains[k] = <<"A"," ","b">> /\ PlainFileName(domains[k])
  /\ \E k \in 1..Len(domains) : Len(domainMap[domains[k]]) = 2

\* name with each "/" turned into "-"
SlashesToHyphens(name) == [k \in 1..Len(name) |-> IF name[k] = "/" THEN "-" ELSE name[k]]

\* C14: every record's FileName is its name with each "/" replaced by "-"
\* and every other character kept, and the record's detail job writes
\* service/<FileName>.html below the output root.
C14_FileNameAndServicePath ==
  /\ \A k \in 1..Len(services) :
       NormalizedAt(k) =>
         /\ services[k].Name = jsonFile.records[k].Name
         /\ services[k].FileName = SlashesToHyphens(services[k].Name)
  /\ Planned =>
       \A k \in 1..Len(services) :
         /\ PageJobPaths(domains, services)[3 + Len(domains) + k] = serviceFilePath(services[k])
         /\ ToSlash(Rel(htmlDir, serviceFilePath(services[k]))) =
              <<"s","e","r","v","i","c","e","/">> \o services[k].FileName \o DotHtml

C14_Witness ==
  /\ Planned
  /\ Len(services) = 3
  /\ \E k \in 1..Len(services) :
       /\ services[k].Name = <<"a","/","b">>
       /\ services[k].FileName = <<"a","-","b">>
  /\ \E k \in 1..Len(services) : services[k].Name = <<>>

(***************************************************************************)
(* Properties of rendering and of the sitemap (Spec, SpecWalk).            *)
(***************************************************************************)
TopLevelPages == {homeFile, servicesFile, byDomainFile}

\* the log entries of the per-domain and per-service loops that report a failure
IsFailure(e) == e.event \in {"create_failed", "execute_failed"}

\* the log shows one attempt at every page job of the run, in the order
\* home, full listing, domain index, domains, services
AllJobsAttempted ==
  LET paths == PageJobPaths(domains, services)
  IN  /\ Len(log) = Len(paths)
      /\ \A k \in 1..Len(paths) : log[k].path = paths[k]

\* the last attempt at path p that got as far as creating the file; 0 without one
LastWrite(p) ==
  LET ks == {k \in 1..Len(log) : log[k].path = p /\ log[k].event # "create_failed"}
  IN  IF ks = {} THEN 0 ELSE CHOOSE k \in ks : \A j \in ks : j <= k

\* what each attempted job wrote is on disk: the file is whole exactly when
\* the last job that created it ran to its end
WritesVisible ==
  \A k \in 1..Len(log) :
    LET p == log[k].path
    IN  LastWrite(p) = k =>
          /\ p \in DOMAIN files
          /\ files[p].mtime = "new"
          /\ files[p].complete = (log[k].event = "generated")

RenderTopStep == RenderHome \/ RenderServices \/ RenderByDomain

RenderLoopStep == RenderDomainPage \/ RenderServicePage

\* C4 as stated: whichever page job fails, the run goes on to the jobs that
\* remain; no page job makes generateHTML return.
C4_NoJobAbortsRun ==
  [][(RenderTopStep \/ RenderLoopStep) => pc' # "return"]_vars

\* C4, amended: a per-domain or per-service job that fails at creating the
\* file or executing the template is logged and the loop goes on to the next
\* job with the run's result untouched, so that every job of both loops is
\* attempted; a failing home, full-listing or domain-index job makes
\* generateHTML return an error at once, before any later job.
C4_LoopJobsContinueTopJobsReturn ==
  /\ [][RenderLoopStep =>
          /\ Len(log') = Len(log) + 1
          /\ IsFailure(log'[Len(log')]) = (faults' > faults \/ ~CanCreate(log'[Len(log')].path))
          /\ i' = i + 1
          /\ pc' = pc
          /\ result' = result]_vars
  /\ [][(RenderTopStep /\ faults' > faults) =>
          /\ pc' = "return"
          /\ result' = "error"
          /\ log' = log]_vars
  /\ [](pc = "sitemap" => AllJobsAttempted)

C4_Witness ==
  /\ pc = "sitemap"
  /\ \E k \in 1..(Len(log) - 1) : IsFailure(log[k]) /\ log[k + 1].event = "generated"
  /\ \E k \in 1..Len(log) : log[k].kind = "domain" /\ IsFailure(log[k])

\* a path ends in ".html"
HasHtmlSuffix(p) == Len(p) >= 5 /\ SubSeq(p, Len(p) - 4, Len(p)) = DotHtml

\* the files under the output root whose names end in ".html"
HtmlFilesOnDisk == {p \in DOMAIN files : IsBelow(p, htmlDir) /\ HasHtmlSuffix(p)}

\* this run has written sitemap.xml
SitemapWritten ==
  /\ sitemapFile \in DOMAIN files
  /\ files[sitemapFile].tmpl = "sitemap.xml"
  /\ files[sitemapFile].complete

SitemapLocs == {files[sitemapFile].data[k].Loc : k \in 1..Len(files[sitemapFile].data)}

\* C6 as stated: when generateSitemap is called (which is at pc = "sitemap"
\* and nowhere else) every page job has been attempted and every page file
\* has been closed.
C6_AllPagesClosedBeforeSitemap ==
  pc = "sitemap" => (AllJobsAttempted /\ handles = {})

\* C6, amended: when generateSitemap is called every page job has been
\* attempted and what it wrote is on disk; the per-domain and per-service
\* files are closed, while the home, full-listing and domain-index files are
\* written but still open, their Close being deferred to generateHTML's
\* return.
C6_AllPagesWrittenBeforeSitemap ==
  pc = "sitemap" =>
    /\ AllJobsAttempted
    /\ WritesVisible
    /\ handles = TopLevelPages

C6_Witness ==
  /\ pc = "robots"
  /\ SitemapWritten
  /\ handles = TopLevelPages
  /\ Len(services) = 2
  /\ \E k \in 1..Len(log) : IsFailure(log[k])

\* WEBSITE without its trailing slashes
TrimmedBase(w) ==
  LET ends == {k \in 0..Len(w) : k = 0 \/ w[k] # "/"}
  IN  SubSeq(w, 1, CHOOSE k \in ends : \A j \in ends : j <= k)

\* the URL of the page at path p: the site root for the home document,
\* <base>/<path below the output root> for any other
ExpectedLoc(w, p) ==
  IF p = htmlDir \o <<"/">> \o IndexHtml
    THEN TrimmedBase(w) \o <<"/">>
    ELSE TrimmedBase(w) \o <<"/">> \o SubSeq(p, Len(htmlDir) + 2, Len(p))

\* C5 as stated: after a run that completed, every page file under the
\* output root belongs to a page job of this run, and the sitemap lists the
\* pages of this run's jobs only.
C5_OutputTreeFullyOverwritten ==
  (pc = "done" /\ result = "ok") =>
    LET paths == PageJobPaths(domains, services)
        jobs  == {paths[k] : k \in 1..Len(paths)}
    IN  /\ HtmlFilesOnDisk \subseteq jobs
        /\ SitemapLocs \subseteq {ExpectedLoc(website, p) : p \in jobs}

\* C7: the sitemap has exactly one entry for each file under the output
\* root whose name ends in ".html" and no other entry, so as many entries as
\* there are such files, whichever page jobs failed.
C7_OneEntryPerHtmlFile ==
  SitemapWritten =>
    LET urls == files[sitemapFile].data
    IN  /\ Len(urls) = Cardinality(HtmlFilesOnDisk)
        /\ \A p \in HtmlFilesOnDisk :
             Cardinality({k \in 1..Len(urls) : urls[k].Loc = ExpectedLoc(website, p)}) = 1
        /\ \A k \in 1..Len(urls) :
             \E p \in HtmlFilesOnDisk : urls[k].Loc = ExpectedLoc(website, p)

C7_Witness ==
  /\ SitemapWritten
  /\ \E k \in 1..Len(log) : log[k].event = "create_failed"
  /\ \E p \in HtmlFilesOnDisk : files[p].tmpl = "stale"
  /\ Len(services) = 2
  /\ Len(files[sitemapFile].data) # Len(PageJobPaths(domains, services))

\* C8: the home document's entry is exactly <base>/, with <base> the
\* WEBSITE value without its trailing slashes; every other page's entry is
\* <base>/<its path below the output root>; and only the home document
\* directly under the output root maps to <base>/.
C8_HomeIsSiteRoot ==
  SitemapWritten =>
    /\ SitemapLocs = {ExpectedLoc(website, p) : p \in HtmlFilesOnDisk}
    /\ homeFile \in DOMAIN files => (TrimmedBase(website) \o <<"/">>) \in SitemapLocs
    /\ (TrimmedBase(website) \o <<"/">>) \in SitemapLocs => homeFile \in DOMAIN files

C8_Witness ==
  /\ SitemapWritten
  /\ website = <<"w","/","/">>
  /\ homeFile \in DOMAIN files
  /\ PathJoin(domainDir, IndexHtml) \in DOMAIN files
  /\ Len(files[sitemapFile].data) = 3

\* C9: the sitemap's entries are in ascending byte-wise order of their URLs,
\* and whatever order the walk took they are the entries the walk in
\* directory order yields: the sequence is fixed by the set of files.
C9_SitemapSortedWhateverTheWalk ==
  SitemapWritten =>
    LET urls == files[sitemapFile].data
    IN  /\ \A k \in 1..(Len(urls) - 1) : StrLess(urls[k].Loc, urls[k + 1].Loc)
        /\ urls = SortURLs(WalkedURLs(BaseURL(website), htmlDir,
                                      WalkSeq(HtmlFilesOnDisk), files))

C9_Witness ==
  /\ SitemapWritten
  /\ Len(files[sitemapFile].data) = 3
  /\ homeFile \in DOMAIN files
  /\ byDomainFile \in DOMAIN files

(***************************************************************************)
(* Properties of the error paths (Spec).                                   *)
(***************************************************************************)
\* the file at p, if there is one, is not of this run's making
NotWrittenInThisRun(p) == p \in DOMAIN files => files[p].mtime = "old"

\* generateSitemap failed before it came to create sitemap.xml
SitemapNotStarted ==
  err \in {SitemapError("environment variable 'WEBSITE' is not set"),
           SitemapError("error walking the path")}

\* C11: with WEBSITE unset or empty generateSitemap returns an error; when it
\* returns that error, or the error of a walk that failed, it has left
\* sitemap.xml as it was, generateHTML returns the error, the process ends
\* with a failure status, and robots.txt is not written in the run.
C11_NoSitemapNoRobotsWithoutBase ==
  /\ [][(pc = "sitemap" /\ website = <<>>) =>
          err' = SitemapError("environment variable 'WEBSITE' is not set")]_vars
  /\ [][(pc = "sitemap" /\ SitemapNotStarted') =>
          (files' = files /\ pc' = "return")]_vars
  /\ [](SitemapNotStarted =>
          /\ pc \in {"return", "done"}
          /\ result = "error"
          /\ pc = "done" => exit = 1
          /\ NotWrittenInThisRun(sitemapFile)
          /\ NotWrittenInThisRun(robotsFile))

C11_Witness ==
  /\ pc = "done"
  /\ website = <<>>
  /\ SitemapNotStarted
  /\ exit = 1
  /\ sitemapFile \in DOMAIN files
  /\ robotsFile \in DOMAIN files
  /\ Len(services) = 2

\* generateHTML failed at reading or parsing services.json
InputError ==
  err \in {Errorf("failed to read services.json", <<>>),
           Errorf("failed to unmarshal JSON", <<>>)}

\* C12: with services.json missing or not a list of records, generateHTML
\* returns an error and the process fails without any step of the run that
\* creates a directory or creates, truncates or modifies a file.
C12_BadInputWritesNothing ==
  /\ [][jsonFile.kind # "ok" => (dirs' = dirs /\ files' = files)]_vars
  /\ [](jsonFile.kind # "ok" =>
          /\ pc \in {"read", "return", "done"}
          /\ pc # "read" => (result = "error" /\ InputError)
          /\ pc = "done" => exit = 1
          /\ \A p \in DOMAIN files : files[p].mtime = "old")

C12_Witness ==
  /\ pc = "done"
  /\ jsonFile.kind = "malformed"
  /\ InputError
  /\ exit = 1
  /\ homeFile \in DOMAIN files
  /\ files[homeFile] = StaleFile

(***************************************************************************)
(* Properties of colliding service pages (Spec).                           *)
(***************************************************************************)
\* both loops have run to their end: every page job has its log entry
LoopsDone ==
  /\ pc \in {"sitemap", "robots", "return", "done"}
  /\ Len(log) >= Len(PageJobPaths(domains, services))

\* the log entry of the job of record k
ServiceLogIndex(k) == 3 + Len(domains) + k

\* the records whose FileName is that of record k
SameFileName(k) == {j \in 1..Len(services) : services[j].FileName = services[k].FileName}

\* C15 as stated: of the records that share a FileName, the page of the one
\* that comes last in the input is what the path holds after the run.
C15_LastRecordWins ==
  LoopsDone =>
    \A k \in 1..Len(services) :
      (Cardinality(SameFileName(k)) >= 2 /\ \A j \in SameFileName(k) : j <= k) =>
        LET p == serviceFilePath(services[k])
        IN  /\ p \in DOMAIN files
            /\ files[p].tmpl = "service.html"
            /\ files[p].data = <<services[k]>>

\* C15, amended: of the records that share a FileName, the last in input
\* order whose job created the file is the one whose page the path holds
\* after the run (whole when its template ran to the end, cut short when
\* it failed); when no such job created the file, this run has written no
\* page at that path.
C15_LastWriterWins ==
  LoopsDone =>
    \A k \in 1..Len(services) :
      LET p       == serviceFilePath(services[k])
          writers == {j \in SameFileName(k) : log[ServiceLogIndex(j)].event # "create_failed"}
      IN  IF writers = {}
            THEN NotWrittenInThisRun(p)
            ELSE LET w == CHOOSE j \in writers : \A x \in writers : x <= j
                 IN  /\ p \in DOMAIN files
                     /\ files[p].tmpl = "service.html"
                     /\ files[p].mtime = "new"
                     /\ IF log[ServiceLogIndex(w)].event = "generated"
                          THEN files[p].data = <<services[w]>> /\ files[p].complete
                          ELSE ~files[p].complete

C15_Witness ==
  /\ pc = "done"
  /\ LoopsDone
  /\ Len(services) = 2
  /\ services[1].Name = <<"a","/","b">>
  /\ services[2].Name = <<"a","-","b">>
  /\ \A k \in 1..Len(log) : ~IsFailure(log[k])
  /\ files[serviceFilePath(services[1])].data = <<services[2]>>

(***************************************************************************)
(* Properties of main and of the crawler (SpecMain).                       *)
(***************************************************************************)
\* control is inside crawlServices
InCrawlServices ==
  pc \in {"crawl", "enabled", "disabled", "collectsvc", "sortsvc", "write", "crawl_return"}

\* control is inside generateHTML
InGenerateHTML ==
  pc \in {"read", "normalize", "group", "collect", "sort", "mkdir", "copy", "parse",
          "home", "services", "bydomain", "domains", "svcpages", "sitemap", "robots",
          "return"}

CrawlAlone == flags.crawl /\ ~flags.generate

GenerateAlone == flags.generate /\ ~flags.crawl

\* C16: main calls crawlServices when -crawl alone is set and generateHTML
\* when -generate alone is set, and neither runs otherwise; with both flags
\* or with none the process ends with a nonzero status without either
\* function having been called or anything written.
C16_RunModesExclusive ==
  /\ [][pc = "main" =>
          /\ CrawlAlone => pc' = "crawl"
          /\ GenerateAlone => pc' = "read"
          /\ (~CrawlAlone /\ ~GenerateAlone) => (pc' = "exited" /\ exit' = 1)]_vars
  /\ [](InCrawlServices => CrawlAlone)
  /\ [](InGenerateHTML => GenerateAlone)
  /\ []((~CrawlAlone /\ ~GenerateAlone) =>
          /\ pc \in {"main", "exited"}
          /\ pc = "exited" => exit = 1
          /\ jsonFile.kind = "missing"
          /\ files = <<>>
          /\ servicesMap = <<>>)

C16_Witness ==
  /\ pc = "exited"
  /\ flags.crawl
  /\ flags.generate
  /\ exit = 1
  /\ Len(gcp.enabled) = 2
  /\ gcp.projectID # <<>>

(***************************************************************************)
(* Properties of the slug (SpecLabels).                                    *)
(***************************************************************************)
\* C17: urlSafe turns each space into a hyphen and each upper-case letter
\* into its lower-case one and keeps every other character, and applying
\* it to its own result changes nothing; the link of the domain index and
\* the path of the domain page carry this slug.
C17_UrlSafeIdempotent ==
  Planned =>
    \A k \in 1..Len(domains) :
      LET d == domains[k]
      IN  /\ urlSafe(d) = SlugOf(d)
          /\ urlSafe(urlSafe(d)) = urlSafe(d)
          /\ Len(urlSafe(d)) = Len(d)
          /\ (byDomainFile \in DOMAIN files /\ files[byDomainFile].complete) =>
               files[byDomainFile].data[k].Link = LinkOf(d)
          /\ \A j \in 1..Len(log) :
               log[j].kind = "domain" => log[j].path = htmlDir \o <<"/">> \o LinkOf(d)

C17_Witness ==
  /\ pc = "done"
  /\ domains = << <<"A", " ", "b">> >>
  /\ urlSafe(domains[1]) = <<"a", "-", "b">>
  /\ byDomainFile \in DOMAIN files
  /\ files[byDomainFile].complete
  /\ \E j \in 1..Len(log) : log[j].kind = "domain" /\ log[j].event = "generated"

(***************************************************************************)
(* Properties of the loops and of what follows them (Spec).                *)
(***************************************************************************)
\* the log holds, after the three top-level pages, one entry per domain
\* label in the order of domains and then one per record in input order
LoopJobsLoggedOnceInOrder ==
  /\ Len(log) = 3 + Len(domains) + Len(services)
  /\ \A k \in 1..Len(domains) :
       /\ log[3 + k].kind = "domain"
       /\ log[3 + k].key = domains[k]
       /\ log[3 + k].path = domainFilePath(domains[k])
  /\ \A k \in 1..Len(services) :
       /\ log[ServiceLogIndex(k)].kind = "service"
       /\ log[ServiceLogIndex(k)].key = services[k].Name
       /\ log[ServiceLogIndex(k)].path = serviceFilePath(services[k])

\* generateSitemap was called and returned an error
SitemapFailed == err # Nil /\ err[1] = "failed to generate sitemap"

\* generateRobotsTxt was called
RobotsInvoked == result = "ok" \/ (err # Nil /\ err[1] = "failed to generate robots.txt")

\* C18 as stated: each loop job is attempted once, in order, whatever
\* failed before it, and after the loops generateSitemap and
\* generateRobotsTxt are both called.
C18_LoopsThenSitemapAndRobots ==
  /\ pc = "sitemap" => LoopJobsLoggedOnceInOrder
  /\ (pc = "done" /\ LoopsDone /\ \E k \in 1..Len(log) : IsFailure(log[k])) => RobotsInvoked

\* C18, amended: each loop job is attempted once, in order, whatever failed
\* before it; after the loops generateSitemap is called whatever failed in
\* them, and generateRobotsTxt is called exactly when generateSitemap
\* returned no error.
C18_LoopsThenSitemapThenRobotsIfNoError ==
  /\ [][RenderLoopStep => (pc' = pc /\ i' = i + 1 /\ Len(log') = Len(log) + 1)]_vars
  /\ [][(pc \in {"domains", "svcpages"} /\ pc' # pc) =>
          /\ i > (IF pc = "domains" THEN Len(domains) ELSE Len(services))
          /\ pc' = (IF pc = "domains" THEN "svcpages" ELSE "sitemap")]_vars
  /\ [](pc = "sitemap" => LoopJobsLoggedOnceInOrder)
  /\ [][pc = "sitemap" =>
          /\ pc' \in {"robots", "return"}
          /\ (pc' = "robots") = (err' = Nil)
          /\ (pc' = "return") = SitemapFailed']_vars
  /\ []((pc = "done" /\ LoopsDone) => (RobotsInvoked = ~SitemapFailed))

C18_Witness ==
  /\ pc = "done"
  /\ result = "ok"
  /\ RobotsInvoked
  /\ Len(services) = 2
  /\ \E k \in 1..Len(log) : log[k].kind = "domain" /\ IsFailure(log[k])
  /\ \E k \in 1..Len(log) : log[k].kind = "service" /\ IsFailure(log[k])
  /\ robotsFile \in DOMAIN files
  /\ files[robotsFile].mtime = "new"

(***************************************************************************)
(* Properties of the order of records (Spec).                              *)
(***************************************************************************)
\* the records of q whose Domain is d, in the order of q
WithDomain(q, d) ==
  LET Has(r) == r.Domain = d
  IN  SelectSeq(q, Has)

\* the full listing has been rendered to its end in this run
ListingWritten ==
  /\ servicesFile \in DOMAIN files
  /\ files[servicesFile].tmpl = "services.html"
  /\ files[servicesFile].complete

\* C19: the full listing's payload is the normalised records in the order
\* of the input, one per input record, and each domain group is the
\* subsequence, in input order, of the records that carry its label.
C19_InputOrderPreserved ==
  /\ pc # "read" =>
       /\ Len(services) = Len(jsonFile.records)
       /\ \A k \in 1..Len(services) :
            /\ services[k].Name = jsonFile.records[k].Name
            /\ services[k].Title = jsonFile.records[k].Title
  /\ \A d \in DOMAIN domainMap :
       domainMap[d] = WithDomain(SubSeq(services, 1, Grouped), d)
  /\ ListingWritten =>
       LET payload == files[servicesFile].data
       IN  /\ Len(payload) = Len(jsonFile.records)
           /\ \A k \in 1..Len(payload) :
                /\ payload[k].Name = jsonFile.records[k].Name
                /\ payload[k].Title = jsonFile.records[k].Title
                /\ payload[k].Domain # <<>>
                /\ payload[k].FileName = SlashesToHyphens(payload[k].Name)
  /\ \A k \in 1..Len(domains) :
       LET p == domainFilePath(domains[k])
       IN  (pc \in {"sitemap", "robots"} /\ log[3 + k].event = "generated") =>
             files[p].data = <<domains[k], WithDomain(services, domains[k])>>

C19_Witness ==
  /\ pc = "done"
  /\ ListingWritten
  /\ Len(services) = 2
  /\ services[1].Name = <<"a","-","b">>
  /\ services[2].Name = <<"a","/","b">>
  /\ Len(domainMap[Misc]) = 2
  /\ domainMap[Misc][1].Name = <<"a","-","b">>

(***************************************************************************)
(* Properties of the crawler's catalog (SpecMain).                         *)
(***************************************************************************)
\* the listing under way, and the services of both listings in the order
\* the API returns them
CurrentListing == IF pc = "enabled" THEN gcp.enabled ELSE gcp.disabled

BothListings == gcp.enabled \o gcp.disabled

\* the first service of q named n
FirstNamed(q, n) ==
  q[CHOOSE k \in 1..Len(q) : q[k].Name = n /\ \A j \in 1..(k - 1) : q[j].Name # n]

\* crawlServices has built and ordered its list of records
CatalogSorted ==
  /\ flags.crawl
  /\ pc \in {"write", "crawl_return", "done"}
  /\ err \in {Nil, Errorf("failed to write services.json", <<>>)}

\* C20: a turn of either listing leaves every record already kept as it is
\* and adds the service it got only when its name is new, so that each name
\* is kept once, with the first record seen for it, the enabled listing
\* coming before the disabled one; the records written to services.json are
\* those kept, in strictly ascending order of name whatever the order the
\* API or the map gave them.
C20_CatalogDedupedAndSorted ==
  /\ [][(pc \in {"enabled", "disabled"}) =>
          /\ \A n \in DOMAIN servicesMap :
               n \in DOMAIN servicesMap' /\ servicesMap'[n] = servicesMap[n]
          /\ i' = i + 1 =>
               LET resp == CurrentListing[i]
               IN  /\ DOMAIN servicesMap' = DOMAIN servicesMap \cup {resp.Name}
                   /\ resp.Name \notin DOMAIN servicesMap =>
                        (/\ servicesMap'[resp.Name].Name = resp.Name
                         /\ servicesMap'[resp.Name].Title = resp.Title)
          /\ i' # i + 1 => (servicesMap' = servicesMap)]_vars
  /\ []((pc \in {"collectsvc", "sortsvc"} \/ CatalogSorted) /\ faults = 0 =>
          /\ DOMAIN servicesMap = {BothListings[k].Name : k \in 1..Len(BothListings)}
          /\ \A n \in DOMAIN servicesMap :
               servicesMap[n].Title = FirstNamed(BothListings, n).Title)
  /\ [](CatalogSorted =>
          /\ Len(services) = Cardinality(DOMAIN servicesMap)
          /\ {services[k] : k \in 1..Len(services)} = {servicesMap[n] : n \in DOMAIN servicesMap}
          /\ \A k \in 1..(Len(services) - 1) : StrLess(services[k].Name, services[k + 1].Name)
          /\ \A j, k \in 1..Len(services) : j # k => services[j].Name # services[k].Name)
  /\ []((flags.crawl /\ jsonFile.kind = "ok") => (CatalogSorted /\ jsonFile.records = services))

C20_Witness ==
  /\ pc = "done"
  /\ CatalogSorted
  /\ err = Nil
  /\ faults = 0
  /\ gcp.enabled = <<Resp(<<"b">>, "t1", <<>>), Resp(<<"a",".","b">>, "t2", <<"d">>)>>
  /\ Len(gcp.disabled) = 2
  /\ gcp.disabled[1] = Resp(<<"b">>, "t3", <<"d">>)
  /\ jsonFile.kind = "ok"
  /\ Len(jsonFile.records) = 2
  /\ jsonFile.records[1].Name = <<"a",".","b">>
  /\ jsonFile.records[2].Title = "t1"

====
